---------------------------- MODULE Spec2Model ----------------------------
(***************************************************************************)
(* A model of the AWS Athena MCP server: the AthenaService operations      *)
(* executeQuery / getQueryStatus / getQueryResults / waitForQueryCompletion*)
(* and the CallTool request handler that dispatches to them.               *)
(*                                                                         *)
(* One tool invocation is in flight at a time.  Every `await` of the code  *)
(* is a position of pc; the action that leaves the position is the         *)
(* resumption of the code with the backend's answer.  The backend (Athena) *)
(* is the environment: it owns the execution's state and answers the three *)
(* requests StartQueryExecution, GetQueryExecution and GetQueryResults.    *)
(*                                                                         *)
(* An optional JavaScript value is the empty sequence when it is           *)
(* undefined and the one-element sequence <<v>> when it is v.              *)
(***************************************************************************)
EXTENDS Integers, Sequences, FiniteSets, TLC

VARIABLES
    pc,         \* position of the invocation in flight
    tool,       \* request.params.name of the invocation
    input,      \* the QueryInput / arguments after the handler's typeof checks
    qid,        \* the queryExecutionId the service works with
    exec,       \* backend: the execution it tracks, <<>> or <<[id, state]>>
    reliable,   \* backend: TRUE when it keeps to its documented contract
    now,        \* Date.now(), counted from the start of the invocation
    startTime,  \* waitForQueryCompletion: startTime
    attempts,   \* waitForQueryCompletion: attempts
    state,      \* waitForQueryCompletion: state of the last response
    waited,     \* executeQuery: what waitForQueryCompletion returned or threw
    response,   \* the last answer to a GetQueryExecution request
    status,     \* getQueryResults: status (the QueryStatus of getQueryStatus)
    results,    \* getQueryResults: the answer to its GetQueryResults request
    outcome,    \* what the service call returned or threw
    sent,       \* requests sent to the backend during the invocation
    held        \* the caller: the handle the last timed-out run_query gave it

vars == <<pc, tool, input, qid, exec, reliable, now, startTime, attempts,
          state, waited, response, status, results, outcome, sent, held>>

-----------------------------------------------------------------------------
(* Optional values *)

None == << >>

Some(v) == <<v>>

\* JavaScript truthiness of an optional number / string
TruthyNum(o) == o # None /\ o[1] # 0

TruthyStr(o) == o # None /\ o[1] # ""

\* a || d
OrNum(o, d) == IF TruthyNum(o) THEN o[1] ELSE d

OrStr(o, d) == IF TruthyStr(o) THEN o[1] ELSE d

-----------------------------------------------------------------------------
(* Program constants *)

\* executeQuery: input.timeoutMs || 60000
DefaultTimeoutMs == 60000

\* executeQuery: waitForQueryCompletion(id, 100, timeoutMs)
MaxAttempts == 100

\* waitForQueryCompletion: setTimeout(resolve, 1000)
PollIntervalMs == 1000

\* getQueryResults: MaxResults: maxRows || 1000
DefaultMaxRows == 1000

\* inputSchema of run_query / get_result: maxRows minimum and maximum
MinMaxRows == 1

MaxMaxRows == 10000


\* model: the value the backend needs per slow call, and the one of the slow
\* calls of the long-budget specification
LatencyMs == 400

BigLatencyMs == 50000

-----------------------------------------------------------------------------
(* Thrown values.  `type` tells what `instanceof` and `typeof` see; `code`, *)
(* `message` and `queryExecutionId` are the properties the code reads.      *)

\* throw { message, code, queryExecutionId }
AthenaError(code, message, id) ==
    [type |-> "object", code |-> Some(code), message |-> message,
     queryExecutionId |-> id]

\* the SDK's InvalidRequestException: an Error subclass without a `code`
InvalidRequestException(message) ==
    [type |-> "InvalidRequestException", code |-> None, message |-> message,
     queryExecutionId |-> None]

\* new Error(message), and any other failure of client.send without a `code`
PlainError(message) ==
    [type |-> "Error", code |-> None, message |-> message,
     queryExecutionId |-> None]

\* a Node system error of the transport: an Error with a `code`
NetworkError ==
    [type |-> "Error", code |-> Some("ECONNRESET"), message |-> "socket hang up",
     queryExecutionId |-> None]

\* new McpError(code, message): code is a number, message is prefixed
McpError(code, message) ==
    [type |-> "McpError", code |-> Some(code), message |-> message,
     queryExecutionId |-> None]

NoOutcome == [kind |-> "none"]

Returned(v) == [kind |-> "return", value |-> v]

Thrown(e) == [kind |-> "throw", error |-> e]

\* what client.send can fail with when the backend or the network misbehaves
SendFailures == {InvalidRequestException("rejected"), PlainError("fetch failed"), NetworkError}

-----------------------------------------------------------------------------
(* The backend *)

Handles == {"h1", "h2"}

ExecStates == {"QUEUED", "RUNNING", "SUCCEEDED", "FAILED", "CANCELLED"}

\* the transitions of an execution's lifecycle
Lifecycle ==
    {<<"QUEUED", "RUNNING">>, <<"QUEUED", "FAILED">>, <<"QUEUED", "CANCELLED">>,
     <<"RUNNING", "SUCCEEDED">>, <<"RUNNING", "FAILED">>, <<"RUNNING", "CANCELLED">>}

Known(h) == exec # None /\ exec[1].id = h

Ok(payload) == [kind |-> "ok", output |-> payload]

Fail(e) == [kind |-> "throw", error |-> e]

\* Statistics of a GetQueryExecution output
StatisticsValues ==
    {None,
     Some([DataScannedInBytes |-> None, EngineExecutionTimeInMillis |-> None]),
     Some([DataScannedInBytes |-> Some(5), EngineExecutionTimeInMillis |-> Some(3)])}

\* the answers of StartQueryExecution
StartAnswers ==
    {Ok([QueryExecutionId |-> Some(h)]) : h \in {x \in Handles : ~Known(x)}}
    \cup {Fail(InvalidRequestException("line 1:1: mismatched input"))}
    \cup (IF reliable THEN {}
          ELSE {Ok([QueryExecutionId |-> None]), Fail(PlainError("fetch failed")),
                Fail(NetworkError)})

\* a QueryExecution of a GetQueryExecution output
QueryExecution(s, reason, stats) ==
    Some([Status |-> Some([State |-> s, StateChangeReason |-> reason]),
          Statistics |-> stats])

\* the answers of GetQueryExecution for handle h, with Statistics among stats
StatusAnswers(h, stats) ==
    IF reliable
    THEN IF Known(h)
         THEN {Ok([QueryExecution |-> QueryExecution(Some(exec[1].state), r, st)]) :
                 r \in (IF exec[1].state \in {"FAILED", "CANCELLED"}
                        THEN {None, Some("syntax error")} ELSE {None}),
                 st \in stats}
         ELSE {Fail(InvalidRequestException("QueryExecution was not found"))}
    ELSE {Ok([QueryExecution |-> QueryExecution(s, r, st)]) :
             s \in {None} \cup {Some(x) : x \in ExecStates},
             r \in {None, Some(""), Some("syntax error")},
             st \in stats}
         \cup {Ok([QueryExecution |-> None]),
               Ok([QueryExecution |-> Some([Status |-> None, Statistics |-> None])])}
         \cup {Fail(e) : e \in SendFailures}

-----------------------------------------------------------------------------
(* Result tables of the backend *)

Col(name) == [Name |-> name]

Cell(v) == [VarCharValue |-> v]

Row(cells) == [Data |-> Some(cells)]

\* the header row Athena puts first: the column names as cells
HeaderRow(cols) == Row([i \in 1..Len(cols) |-> Cell(cols[i].Name)])

Table(cols, rows) == [ColumnInfo |-> cols, Rows |-> rows]

Min(a, b) == IF a <= b THEN a ELSE b

\* a table as the backend documents it: named metadata, a header row, and
\* every row as wide as the metadata
WellFormed(t) ==
    /\ t.ColumnInfo # None
    /\ \A i \in 1..Len(t.ColumnInfo[1]) : TruthyStr(t.ColumnInfo[1][i].Name)
    /\ t.Rows # None
    /\ Len(t.Rows[1]) >= 1
    /\ \A i \in 1..Len(t.Rows[1]) :
          /\ t.Rows[1][i].Data # None
          /\ Len(t.Rows[1][i].Data[1]) = Len(t.ColumnInfo[1])

\* the page GetQueryResults returns for MaxResults = m: the first m rows
Page(t, m) ==
    [ColumnInfo |-> t.ColumnInfo,
     Rows |-> IF t.Rows = None THEN None
              ELSE Some(SubSeq(t.Rows[1], 1, Min(m, Len(t.Rows[1]))))]

\* the answers of GetQueryResults with MaxResults = m, over the tables given
ResultAnswers(tables, m) ==
    {Ok([ResultSet |-> Some(Page(t, m))]) :
        t \in {x \in tables : reliable => WellFormed(x)}}
    \cup (IF reliable THEN {}
          ELSE {Ok([ResultSet |-> None])} \cup {Fail(e) : e \in SendFailures})

ColA == Col(Some("col_a"))

ColB == Col(Some("col_b"))

\* the table of the documented example: two columns, two data rows, a null cell
ExampleTable ==
    Table(Some(<<ColA, ColB>>),
          Some(<<HeaderRow(<<ColA, ColB>>),
                 Row(<<Cell(Some("1")), Cell(Some("x"))>>),
                 Row(<<Cell(Some("2")), Cell(None)>>)>>))

\* the tables of the main specification
MainTables ==
    {ExampleTable,
     Table(Some(<<ColA>>),
           Some(<<HeaderRow(<<ColA>>), Row(<<Cell(Some("1"))>>),
                  Row(<<Cell(Some("2"))>>), Row(<<Cell(Some("x"))>>)>>)),
     Table(Some(<<>>), Some(<<HeaderRow(<<>>)>>)),
     Table(Some(<<Col(None), ColB>>),
           Some(<<Row(<<Cell(Some("")), Cell(Some("col_b"))>>),
                  Row(<<Cell(Some("1")), Cell(Some("x"))>>)>>)),
     Table(None, None)}

-----------------------------------------------------------------------------
(* getQueryStatus and the Result Decoder, as functions of the backend's answer *)

\* response.QueryExecution.Status?.State and the like
StateOf(qe) == IF qe.Status = None THEN None ELSE qe.Status[1].State

ReasonOf(qe) == IF qe.Status = None THEN None ELSE qe.Status[1].StateChangeReason

DataScannedOf(qe) ==
    IF qe.Statistics = None THEN None ELSE qe.Statistics[1].DataScannedInBytes

EngineTimeOf(qe) ==
    IF qe.Statistics = None THEN None
    ELSE qe.Statistics[1].EngineExecutionTimeInMillis

NotFound == AthenaError("QUERY_NOT_FOUND", "Query execution not found", None)

\* mutant of getQueryStatus: the catch block rethrows every error as it is, and
\* absent statistics stay absent
getQueryStatusUnmapped(answer) ==
    IF answer.kind = "throw"
    THEN Thrown(answer.error)
    ELSE IF answer.output.QueryExecution = None
         THEN Thrown(NotFound)
         ELSE LET qe == answer.output.QueryExecution[1] IN
              Returned([state |-> OrStr(StateOf(qe), "UNKNOWN"),
                        stateChangeReason |-> ReasonOf(qe),
                        statistics |->
                           [dataScannedInBytes |-> OrNum(DataScannedOf(qe), 0),
                            engineExecutionTimeInMillis |->
                                OrNum(EngineTimeOf(qe), 0)]])

\* getQueryStatus, given the answer of its GetQueryExecution request
getQueryStatus(answer) ==
    IF answer.kind = "throw"
    THEN IF answer.error.type = "InvalidRequestException"
         THEN Thrown(NotFound)
         ELSE Thrown(answer.error)
    ELSE IF answer.output.QueryExecution = None
         THEN Thrown(NotFound)
         ELSE LET qe == answer.output.QueryExecution[1] IN
              Returned([state |-> OrStr(StateOf(qe), "UNKNOWN"),
                        stateChangeReason |-> ReasonOf(qe),
                        statistics |->
                           [dataScannedInBytes |-> OrNum(DataScannedOf(qe), 0),
                            engineExecutionTimeInMillis |->
                                OrNum(EngineTimeOf(qe), 0)]])

\* results.ResultSet.ResultSetMetadata?.ColumnInfo?.map((col) => col.Name || "") || []
Columns(rs) ==
    IF rs.ColumnInfo = None THEN << >>
    ELSE [i \in 1..Len(rs.ColumnInfo[1]) |-> OrStr(rs.ColumnInfo[1][i].Name, "")]

\* obj[k] = v
Put(obj, k, v) == [x \in (DOMAIN obj) \cup {k} |-> IF x = k THEN v ELSE obj[x]]

\* row.Data?.forEach((data, index) => { if (columns[index]) obj[columns[index]] = ... })
\* from cell number index (counted from 1) on
RECURSIVE ForEachCell(_, _, _, _)
ForEachCell(data, columns, index, obj) ==
    IF index > Len(data) THEN obj
    ELSE ForEachCell(data, columns, index + 1,
            IF index <= Len(columns) /\ columns[index] # ""
            THEN Put(obj, columns[index], data[index].VarCharValue)
            ELSE obj)

EmptyObject == [x \in {} |-> None]

RowObject(row, columns) ==
    IF row.Data = None THEN EmptyObject
    ELSE ForEachCell(row.Data[1], columns, 1, EmptyObject)

\* mutant of DataRows: the header row is not skipped
DataRowsKeepsHeader(rs) == IF rs.Rows = None THEN << >> ELSE rs.Rows[1]

\* (results.ResultSet.Rows || []).slice(1)
DataRows(rs) ==
    IF rs.Rows = None THEN << >> ELSE SubSeq(rs.Rows[1], 2, Len(rs.Rows[1]))

\* .map((row) => ...)
DecodeRows(rs) ==
    LET data == DataRows(rs) IN
    [i \in 1..Len(data) |-> RowObject(data[i], Columns(rs))]

-----------------------------------------------------------------------------
(* The tool handler and the service, one action per resumption *)

\* arguments as the handler receives them: typeof, and the number if it is one
RawUndefined == [type |-> "undefined", val |-> 0]

RawString == [type |-> "string", val |-> 0]

RawNumber(n) == [type |-> "number", val |-> n]

\* typeof x === 'number' ? x : undefined
NumberArg(raw) == IF raw.type = "number" THEN Some(raw.val) ELSE None

NoInput == [maxRows |-> None, timeoutMs |-> None]

NoneSent == [submit |-> 0, poll |-> 0, status |-> 0, fetch |-> 0]

Send(kind) == [sent EXCEPT ![kind] = @ + 1]

InvalidParams(message) == McpError("-32602", message)

\* mutant of InnerCatch: the TIMEOUT is rethrown like any other error
InnerCatchRethrows(e, id) == Thrown(e)

\* executeQuery, inner catch: a TIMEOUT becomes the bare handle
InnerCatch(e, id) ==
    IF e.code = Some("TIMEOUT")
    THEN Returned([queryExecutionId |-> id])
    ELSE Thrown(e)

\* executeQuery, outer catch: an InvalidRequestException becomes INVALID_REQUEST
OuterCatch(e) ==
    IF e.type = "InvalidRequestException"
    THEN Thrown(AthenaError("INVALID_REQUEST", e.message, None))
    ELSE Thrown(e)

\* what run_query makes of an outcome of its poll loop or of getQueryResults
ExecuteQueryEnd(o) ==
    IF o.kind = "throw"
    THEN LET r == InnerCatch(o.error, qid[1]) IN
         IF r.kind = "throw" THEN OuterCatch(r.error) ELSE r
    ELSE o

\* the outcome of the invocation, given the outcome of getQueryResults
Surface(o) == IF tool = "run_query" THEN ExecuteQueryEnd(o) ELSE o

\* the invocation ends with outcome o
Finish(o) ==
    /\ pc' = "done"
    /\ outcome' = o

\* a new invocation of tool t starts
Begin(t, in, q) ==
    /\ pc = "idle"
    /\ tool' = t
    /\ input' = in
    /\ qid' = q
    /\ now' = 0
    /\ startTime' = 0
    /\ attempts' = 0
    /\ state' = None
    /\ waited' = None
    /\ response' = None
    /\ status' = None
    /\ results' = None
    /\ UNCHANGED <<exec, reliable, held>>

\* CallTool run_query: the parameter check, then executeQuery up to the
\* StartQueryExecution request
RunQueryCall(timeouts, maxrows) ==
    \E argsOk \in BOOLEAN, mr \in maxrows, t \in timeouts :
        IF argsOk
        THEN /\ Begin("run_query",
                      [maxRows |-> NumberArg(mr), timeoutMs |-> NumberArg(t)], None)
             /\ sent' = [NoneSent EXCEPT !.submit = 1]
             /\ pc' = "start_await"
             /\ outcome' = NoOutcome
        ELSE /\ Begin("run_query", NoInput, None)
             /\ sent' = NoneSent
             /\ Finish(Thrown(InvalidParams(
                  "Missing or invalid required parameters: database (string) and query (string)")))

\* input.timeoutMs || 60000
TimeoutMs == OrNum(input.timeoutMs, DefaultTimeoutMs)

\* mutant of SubmitFailed: the submission is sent again
SubmitFailedResends(e) ==
    /\ sent' = Send("submit")
    /\ UNCHANGED <<pc, outcome, qid, exec, startTime>>

\* executeQuery: the submission failed with e; nothing is sent again
SubmitFailed(e) ==
    /\ Finish(OuterCatch(e))
    /\ UNCHANGED <<qid, exec, startTime, sent>>

\* executeQuery resumes with the answer to StartQueryExecution
StartResponse(env) ==
    /\ pc = "start_await"
    /\ \E a \in StartAnswers, d \in env.lats :
        /\ now' = now + d
        /\ IF a.kind = "throw"
           THEN SubmitFailed(a.error)
           ELSE IF a.output.QueryExecutionId = None
           THEN SubmitFailed(PlainError("Failed to start query execution"))
           ELSE /\ qid' = a.output.QueryExecutionId
                /\ exec' = Some([id |-> a.output.QueryExecutionId[1], state |-> "QUEUED"])
                /\ startTime' = now'
                /\ pc' = "loop"
                /\ UNCHANGED <<outcome, sent>>
    /\ UNCHANGED <<tool, input, reliable, held, attempts, state, waited, response,
                   status, results>>

\* mutant of WithinAttempts: the comparison is off by one
WithinAttemptsOffByOne == attempts <= MaxAttempts

\* waitForQueryCompletion: the loop condition
WithinAttempts == attempts < MaxAttempts

\* waitForQueryCompletion: timeoutMs && Date.now() - startTime >= timeoutMs
BudgetSpent == TimeoutMs # 0 /\ now - startTime >= TimeoutMs

Timeout == AthenaError("TIMEOUT", "Query timed out", qid)

\* mutant of LoopHead: a loop that ran out stops the execution on the backend
\* (a StopQueryExecution request) before it raises TIMEOUT
LoopHeadCancels ==
    /\ pc = "loop"
    /\ IF WithinAttempts /\ ~BudgetSpent
       THEN /\ pc' = "poll_await"
            /\ sent' = Send("poll")
            /\ UNCHANGED <<outcome, waited, exec>>
       ELSE /\ waited' = Some(Thrown(Timeout))
            /\ Finish(ExecuteQueryEnd(Thrown(Timeout)))
            /\ exec' = Some([exec[1] EXCEPT !.state = "CANCELLED"])
            /\ UNCHANGED sent
    /\ UNCHANGED <<tool, input, qid, reliable, held, now, startTime, attempts,
                   state, response, status, results>>

\* mutant of LoopHead: a loop that ran out starts over instead of raising
\* TIMEOUT
LoopHeadRetries ==
    /\ pc = "loop"
    /\ IF WithinAttempts /\ ~BudgetSpent
       THEN /\ pc' = "poll_await"
            /\ sent' = Send("poll")
            /\ UNCHANGED <<attempts, startTime>>
       ELSE /\ pc' = "loop"
            /\ attempts' = 0
            /\ startTime' = now
            /\ UNCHANGED sent
    /\ UNCHANGED <<tool, input, qid, exec, reliable, held, now, state, waited,
                   response, status, results, outcome>>

\* waitForQueryCompletion: the head of an iteration, up to the
\* GetQueryExecution request
LoopHead ==
    /\ pc = "loop"
    /\ IF WithinAttempts /\ ~BudgetSpent
       THEN /\ pc' = "poll_await"
            /\ sent' = Send("poll")
            /\ UNCHANGED <<outcome, waited>>
       ELSE /\ waited' = Some(Thrown(Timeout))
            /\ Finish(ExecuteQueryEnd(Thrown(Timeout)))
            /\ UNCHANGED sent
    /\ UNCHANGED <<tool, input, qid, exec, reliable, held, now, startTime, attempts,
                   state, response, status, results>>

\* mutant of PolledState: a response without a state counts as a failure
PolledStateAbsentFails(output) ==
    IF output.QueryExecution = None THEN Some("FAILED")
    ELSE IF StateOf(output.QueryExecution[1]) = None THEN Some("FAILED")
    ELSE StateOf(output.QueryExecution[1])

\* waitForQueryCompletion: response.QueryExecution?.Status?.State
PolledState(output) ==
    IF output.QueryExecution = None THEN None
    ELSE StateOf(output.QueryExecution[1])

\* mutant of PolledFailure: the error does not carry the handle
PolledFailureWithoutHandle(output) ==
    AthenaError("QUERY_FAILED",
                OrStr(IF output.QueryExecution = None THEN None
                      ELSE ReasonOf(output.QueryExecution[1]), "Query failed"),
                None)

\* waitForQueryCompletion: response.QueryExecution?.Status?.StateChangeReason || "Query failed"
PolledFailure(output) ==
    AthenaError("QUERY_FAILED",
                OrStr(IF output.QueryExecution = None THEN None
                      ELSE ReasonOf(output.QueryExecution[1]), "Query failed"),
                qid)

\* mutant of PollFailedStates: the CANCELLED test is missing
PollFailedStatesWithoutCancelled == {"FAILED"}

\* waitForQueryCompletion: the states that end the loop with QUERY_FAILED
PollFailedStates == {"FAILED", "CANCELLED"}

\* the answers a poll of the loop can get: those of GetQueryExecution whose
\* state, if they carry an output, is among env.polled
PollAnswers(env) ==
    {a \in StatusAnswers(qid[1], env.stats) :
        a.kind = "ok" =>
            (IF a.output.QueryExecution = None THEN None
             ELSE StateOf(a.output.QueryExecution[1])) \in env.polled}

\* mutant of PollResponse: on SUCCEEDED the poll's own observation serves as
\* the status and the data is fetched at once
PollResponseReusesObservation(env) ==
    /\ pc = "poll_await"
    /\ \E a \in PollAnswers(env), d \in env.lats :
        /\ now' = now + d
        /\ IF a.kind = "throw"
           THEN /\ waited' = Some(Thrown(a.error))
                /\ response' = Some(a)
                /\ Finish(ExecuteQueryEnd(Thrown(a.error)))
                /\ UNCHANGED <<state, sent, status>>
           ELSE LET s == PolledState(a.output) IN
                /\ state' = s
                /\ IF s = Some("SUCCEEDED")
                   THEN /\ waited' = Some(Returned("response"))
                        /\ response' = Some(a)
                        /\ status' = Some(getQueryStatus(a).value)
                        /\ pc' = "fetch_await"
                        /\ sent' = Send("fetch")
                        /\ UNCHANGED outcome
                   ELSE IF s # None /\ s[1] \in PollFailedStates
                   THEN /\ waited' = Some(Thrown(PolledFailure(a.output)))
                        /\ response' = Some(a)
                        /\ Finish(ExecuteQueryEnd(Thrown(PolledFailure(a.output))))
                        /\ UNCHANGED <<sent, status>>
                   ELSE /\ pc' = "sleep"
                        /\ response' = None
                        /\ UNCHANGED <<outcome, sent, waited, status>>
    /\ UNCHANGED <<tool, input, qid, exec, reliable, held, startTime, attempts,
                   results>>

\* waitForQueryCompletion resumes with the answer to GetQueryExecution
PollResponse(env) ==
    /\ pc = "poll_await"
    /\ \E a \in PollAnswers(env), d \in env.lats :
        /\ now' = now + d
        /\ IF a.kind = "throw"
           THEN /\ waited' = Some(Thrown(a.error))
                /\ response' = Some(a)
                /\ Finish(ExecuteQueryEnd(Thrown(a.error)))
                /\ UNCHANGED <<state, sent>>
           ELSE LET s == PolledState(a.output) IN
                /\ state' = s
                /\ IF s = Some("SUCCEEDED")
                   THEN \* return response (executeQuery does not read it), and
                        \* executeQuery calls getQueryResults
                        /\ waited' = Some(Returned("response"))
                        /\ response' = None
                        /\ pc' = "verify_await"
                        /\ sent' = Send("status")
                        /\ UNCHANGED outcome
                   ELSE IF s # None /\ s[1] \in PollFailedStates
                   THEN /\ waited' = Some(Thrown(PolledFailure(a.output)))
                        /\ response' = Some(a)
                        /\ Finish(ExecuteQueryEnd(Thrown(PolledFailure(a.output))))
                        /\ UNCHANGED sent
                   ELSE \* the response is not read again
                        /\ pc' = "sleep"
                        /\ response' = None
                        /\ UNCHANGED <<outcome, sent, waited>>
    /\ UNCHANGED <<tool, input, qid, exec, reliable, held, startTime, attempts, status,
                   results>>

\* mutant of SleepDone: the delay grows with the attempt number (backoff)
SleepDoneBacksOff ==
    /\ pc = "sleep"
    /\ now' = now + PollIntervalMs * (attempts + 1)
    /\ attempts' = attempts + 1
    /\ pc' = "loop"
    /\ UNCHANGED <<tool, input, qid, exec, reliable, held, startTime, state, waited,
                   response, status, results, outcome, sent>>

\* waitForQueryCompletion: the timer of an iteration fires; attempts++
SleepDone ==
    /\ pc = "sleep"
    /\ now' = now + PollIntervalMs
    /\ attempts' = attempts + 1
    /\ pc' = "loop"
    /\ UNCHANGED <<tool, input, qid, exec, reliable, held, startTime, state, waited,
                   response, status, results, outcome, sent>>

\* CallTool get_result: the parameter check, then getQueryResults up to the
\* GetQueryExecution request of getQueryStatus
GetResultCall(maxrows) ==
    \E argsOk \in BOOLEAN, q \in Handles, mr \in maxrows :
        IF argsOk
        THEN /\ Begin("get_result", [maxRows |-> NumberArg(mr), timeoutMs |-> None],
                      Some(q))
             /\ sent' = [NoneSent EXCEPT !.status = 1]
             /\ pc' = "verify_await"
             /\ outcome' = NoOutcome
        ELSE /\ Begin("get_result", NoInput, None)
             /\ sent' = NoneSent
             /\ Finish(Thrown(InvalidParams(
                  "Missing or invalid required parameter: queryExecutionId (string)")))

\* mutant of StateError: the last test compares with a misspelled SUCCEEDED
StateErrorMisspelledSucceeded(st) ==
    IF st.state \in {"RUNNING", "QUEUED"}
    THEN Some(AthenaError("QUERY_STILL_RUNNING", "Query is still running", qid))
    ELSE IF st.state = "FAILED"
    THEN Some(AthenaError("QUERY_FAILED",
                          OrStr(st.stateChangeReason, "Query failed"), qid))
    ELSE IF st.state # "SUCCEDED"
    THEN Some(AthenaError("UNEXPECTED_STATE",
                          "Unexpected query state: " \o st.state, qid))
    ELSE None

\* mutant of StateError: CANCELLED is reported like FAILED, as the poll loop
\* does
StateErrorCancelledAsFailed(st) ==
    IF st.state \in {"RUNNING", "QUEUED"}
    THEN Some(AthenaError("QUERY_STILL_RUNNING", "Query is still running", qid))
    ELSE IF st.state \in {"FAILED", "CANCELLED"}
    THEN Some(AthenaError("QUERY_FAILED",
                          OrStr(st.stateChangeReason, "Query failed"), qid))
    ELSE IF st.state # "SUCCEEDED"
    THEN Some(AthenaError("UNEXPECTED_STATE",
                          "Unexpected query state: " \o st.state, qid))
    ELSE None

\* mutant of StateError: the QUEUED test is missing
StateErrorWithoutQueued(st) ==
    IF st.state = "RUNNING"
    THEN Some(AthenaError("QUERY_STILL_RUNNING", "Query is still running", qid))
    ELSE IF st.state = "FAILED"
    THEN Some(AthenaError("QUERY_FAILED",
                          OrStr(st.stateChangeReason, "Query failed"), qid))
    ELSE IF st.state # "SUCCEEDED"
    THEN Some(AthenaError("UNEXPECTED_STATE",
                          "Unexpected query state: " \o st.state, qid))
    ELSE None

\* getQueryResults: the error of a status that is not SUCCEEDED, << >> if it is
StateError(st) ==
    IF st.state \in {"RUNNING", "QUEUED"}
    THEN Some(AthenaError("QUERY_STILL_RUNNING", "Query is still running", qid))
    ELSE IF st.state = "FAILED"
    THEN Some(AthenaError("QUERY_FAILED",
                          OrStr(st.stateChangeReason, "Query failed"), qid))
    ELSE IF st.state # "SUCCEEDED"
    THEN Some(AthenaError("UNEXPECTED_STATE",
                          "Unexpected query state: " \o st.state, qid))
    ELSE None

\* getQueryResults resumes with the outcome of getQueryStatus
VerifyResponse(env) ==
    /\ pc = "verify_await"
    /\ \E a \in StatusAnswers(qid[1], env.stats), d \in env.lats :
        LET st == getQueryStatus(a) IN
        /\ now' = now + d
        /\ response' = Some(a)
        /\ IF st.kind = "throw"
           THEN /\ Finish(Surface(st))
                /\ UNCHANGED <<status, sent>>
           ELSE /\ status' = Some(st.value)
                /\ IF StateError(st.value) # None
                   THEN /\ Finish(Surface(Thrown(StateError(st.value)[1])))
                        /\ UNCHANGED sent
                   ELSE /\ pc' = "fetch_await"
                        /\ sent' = Send("fetch")
                        /\ UNCHANGED outcome
    /\ UNCHANGED <<tool, input, qid, exec, reliable, held, startTime, attempts, state,
                   waited, results>>

\* mutant of MaxResults: maxRows is not passed on
MaxResultsIgnoresMaxRows == DefaultMaxRows

\* getQueryResults: MaxResults: maxRows || 1000
MaxResults == OrNum(input.maxRows, DefaultMaxRows)

\* mutant of QueryResult: the handle is left out of the result
QueryResultWithoutHandle(rs) ==
    [columns |-> Columns(rs),
     rows |-> DecodeRows(rs),
     queryExecutionId |-> "",
     bytesScanned |-> OrNum(Some(status[1].statistics.dataScannedInBytes), 0),
     executionTime |-> OrNum(Some(status[1].statistics.engineExecutionTimeInMillis), 0)]

\* getQueryResults: the QueryResult built from the page and the status
QueryResult(rs) ==
    [columns |-> Columns(rs),
     rows |-> DecodeRows(rs),
     queryExecutionId |-> qid[1],
     bytesScanned |-> OrNum(Some(status[1].statistics.dataScannedInBytes), 0),
     executionTime |-> OrNum(Some(status[1].statistics.engineExecutionTimeInMillis), 0)]

\* getQueryResults: what it makes of the answer to GetQueryResults
FetchOutcome(a) ==
    IF a.kind = "throw"
    THEN IF a.error.type = "InvalidRequestException"
         THEN Thrown(NotFound)
         ELSE Thrown(a.error)
    ELSE IF a.output.ResultSet = None
    THEN Thrown(PlainError("No results returned from query"))
    ELSE Returned(QueryResult(a.output.ResultSet[1]))

\* getQueryResults resumes with the answer to GetQueryResults
FetchResponse(env) ==
    /\ pc = "fetch_await"
    /\ \E a \in ResultAnswers(env.tables, MaxResults), d \in env.lats :
        /\ now' = now + d
        /\ results' = Some(a)
        /\ Finish(Surface(FetchOutcome(a)))
    /\ UNCHANGED <<tool, input, qid, exec, reliable, held, startTime, attempts, state,
                   waited, response, status, sent>>

\* CallTool get_status: the parameter check, then getQueryStatus up to its
\* GetQueryExecution request
GetStatusCall ==
    \E argsOk \in BOOLEAN, q \in Handles :
        IF argsOk
        THEN /\ Begin("get_status", NoInput, Some(q))
             /\ sent' = [NoneSent EXCEPT !.status = 1]
             /\ pc' = "status_await"
             /\ outcome' = NoOutcome
        ELSE /\ Begin("get_status", NoInput, None)
             /\ sent' = NoneSent
             /\ Finish(Thrown(InvalidParams(
                  "Missing or invalid required parameter: queryExecutionId (string)")))

\* getQueryStatus (called by the handler) resumes with the answer
StatusResponse(env) ==
    /\ pc = "status_await"
    /\ \E a \in StatusAnswers(qid[1], env.stats), d \in env.lats :
        /\ now' = now + d
        /\ response' = Some(a)
        /\ Finish(getQueryStatus(a))
    /\ UNCHANGED <<tool, input, qid, exec, reliable, held, startTime, attempts, state,
                   waited, status, results, sent>>

\* CallTool with any other name: the default branch of the switch
UnknownToolCall ==
    /\ Begin("other", NoInput, None)
    /\ sent' = NoneSent
    /\ Finish(Thrown(McpError("-32601", "Unknown tool")))

\* a tool result: content [{type: "text", text}], and isError when flagged
ToolResult(text, isError) == [kind |-> "result", text |-> text, isError |-> isError]

\* the text of a successful reply: JSON.stringify(result, null, 2), kept as the
\* application of the conversion to the value
Stringify(value) == <<"JSON.stringify", value>>

\* mutant of ToolReply: the handler's own McpErrors are rethrown to the protocol
ToolReplyRethrowsMcpError(o) ==
    IF o.kind = "return"
    THEN ToolResult(Stringify(o.value), FALSE)
    ELSE IF o.error.code # None /\ o.error.type # "McpError"
    THEN ToolResult(<<"Error: ", o.error.message>>, TRUE)
    ELSE [kind |-> "rejected", error |-> o.error]

\* the CallTool handler's reply for the outcome o of the tool's switch case:
\* the result as text, or the catch block's `Error: ${message}` for a thrown
\* value with code and message (every thrown value here has a message), or
\* the thrown value again
ToolReply(o) ==
    IF o.kind = "return"
    THEN ToolResult(Stringify(o.value), FALSE)
    ELSE IF o.error.code # None
    THEN ToolResult(<<"Error: ", o.error.message>>, TRUE)
    ELSE [kind |-> "rejected", error |-> o.error]

\* the reply of a run_query that timed out: { queryExecutionId } and nothing else
IsBareHandle(o) ==
    o.kind = "return" /\ DOMAIN o.value = {"queryExecutionId"}

\* the handler hands the reply to the transport: the invocation and its
\* locals are gone
Return ==
    /\ pc = "done"
    /\ pc' = "idle"
    /\ tool' = "none"
    /\ input' = NoInput
    /\ qid' = None
    /\ now' = 0
    /\ startTime' = 0
    /\ attempts' = 0
    /\ state' = None
    /\ waited' = None
    /\ response' = None
    /\ status' = None
    /\ results' = None
    /\ outcome' = NoOutcome
    /\ sent' = NoneSent
    /\ held' = IF IsBareHandle(outcome) THEN Some(outcome.value.queryExecutionId)
               ELSE held
    /\ UNCHANGED <<exec, reliable>>

\* the backend moves the execution along its lifecycle (an unreliable backend
\* answers with any state whatever: its record of the execution is not
\* observable, and is left as it was submitted)
BackendStep ==
    /\ reliable
    /\ exec # None
    /\ \E s \in ExecStates :
        /\ <<exec[1].state, s>> \in Lifecycle
        /\ exec' = Some([exec[1] EXCEPT !.state = s])
    /\ UNCHANGED <<pc, tool, input, qid, reliable, held, now, startTime, attempts, state,
                   waited, response, status, results, outcome, sent>>

-----------------------------------------------------------------------------
(* Specifications *)

\* the state after construction: no invocation yet; the backend may hold an
\* execution submitted earlier
Init ==
    /\ pc = "idle"
    /\ tool = "none"
    /\ input = NoInput
    /\ qid = None
    /\ exec \in {None} \cup {Some([id |-> "h1", state |-> s]) : s \in ExecStates}
    /\ reliable \in BOOLEAN
    /\ now = 0
    /\ startTime = 0
    /\ attempts = 0
    /\ state = None
    /\ waited = None
    /\ response = None
    /\ status = None
    /\ results = None
    /\ outcome = NoOutcome
    /\ sent = NoneSent
    /\ held = None

\* every state a GetQueryExecution output can carry, none included
PolledStates == {None} \cup {Some(x) : x \in ExecStates}

\* inputs of the main specification: budgets of a few poll intervals
MainTimeouts == {RawNumber(1000), RawNumber(2500)}

MainMaxRows == {RawUndefined, RawString, RawNumber(0), RawNumber(1), RawNumber(2),
                RawNumber(10001)}

MainEnv ==
    [lats |-> {0, LatencyMs}, stats |-> StatisticsValues, tables |-> MainTables,
     polled |-> PolledStates]

Next ==
    \/ RunQueryCall(MainTimeouts, MainMaxRows)
    \/ StartResponse(MainEnv)
    \/ LoopHead
    \/ PollResponse(MainEnv)
    \/ SleepDone
    \/ GetResultCall(MainMaxRows)
    \/ VerifyResponse(MainEnv)
    \/ FetchResponse(MainEnv)
    \/ GetStatusCall
    \/ StatusResponse(MainEnv)
    \/ UnknownToolCall
    \/ Return
    \/ BackendStep

Spec == Init /\ [][Next]_vars

\* inputs of the long-budget specification: no budget given, and one longer
\* than 100 poll intervals; a slow call takes a large part of the budget
BudgetTimeouts == {RawUndefined, RawNumber(150000)}

BudgetMaxRows == {RawUndefined}

BudgetEnv ==
    [lats |-> {0, BigLatencyMs}, stats |-> {None}, tables |-> {ExampleTable},
     polled |-> PolledStates]

NextBudget ==
    \/ RunQueryCall(BudgetTimeouts, BudgetMaxRows)
    \/ StartResponse(BudgetEnv)
    \/ LoopHead
    \/ PollResponse(BudgetEnv)
    \/ SleepDone
    \/ GetResultCall(BudgetMaxRows)
    \/ VerifyResponse(BudgetEnv)
    \/ FetchResponse(BudgetEnv)
    \/ GetStatusCall
    \/ StatusResponse(BudgetEnv)
    \/ UnknownToolCall
    \/ Return
    \/ BackendStep

SpecBudget == Init /\ [][NextBudget]_vars

\* the decoder specification: get_result against a backend that holds a
\* succeeded execution and serves any table of the sets below
InitDecoder ==
    /\ Init
    /\ exec = Some([id |-> "h1", state |-> "SUCCEEDED"])
    /\ ~reliable

\* the most data rows of a table
MaxDataRows == 2

DecoderLayouts ==
    {None, Some(<< >>), Some(<<ColA>>), Some(<<ColA, ColB>>), Some(<<ColA, ColA>>),
     Some(<<Col(None), ColB>>), Some(<<Col(Some("")), ColB>>)}

DecoderCells == {Cell(None), Cell(Some("")), Cell(Some("1"))}

Width(layout) == IF layout = None THEN 0 ELSE Len(layout[1])

\* the rows of a table w wide: every row of w cells, a row without Data, an
\* empty row and a row of three cells
DecoderRows(w) ==
    {Row(c) : c \in [1..w -> DecoderCells]}
    \cup {[Data |-> None], Row(<< >>),
          Row(<<Cell(Some("1")), Cell(None), Cell(Some(""))>>)}

DecoderData(w) == UNION {[1..n -> DecoderRows(w)] : n \in 0..MaxDataRows}

DecoderTables ==
    UNION {{Table(l, Some(<<HeaderRow(IF l = None THEN << >> ELSE l[1])>> \o d)) :
               d \in DecoderData(Width(l))} : l \in DecoderLayouts}
    \cup {Table(l, r) : l \in DecoderLayouts, r \in {None, Some(<< >>)}}
    \cup {ExampleTable}

DecoderMaxRows == {RawUndefined, RawNumber(2)}

DecoderEnv ==
    [lats |-> {0}, stats |-> {None}, tables |-> DecoderTables, polled |-> PolledStates]

NextDecoder ==
    \/ GetResultCall(DecoderMaxRows)
    \/ VerifyResponse(DecoderEnv)
    \/ FetchResponse(DecoderEnv)
    \/ Return

SpecDecoder == InitDecoder /\ [][NextDecoder]_vars

\* the unclassified-state specification: run_query against a backend that
\* reports no state at all on a poll until it reports SUCCEEDED
InitUnknown ==
    /\ Init
    /\ ~reliable

UnknownEnv ==
    [lats |-> {0, LatencyMs}, stats |-> StatisticsValues, tables |-> {ExampleTable},
     polled |-> {None, Some("SUCCEEDED")}]

NextUnknown ==
    \/ RunQueryCall(MainTimeouts, BudgetMaxRows)
    \/ StartResponse(UnknownEnv)
    \/ LoopHead
    \/ PollResponse(UnknownEnv)
    \/ SleepDone
    \/ VerifyResponse(UnknownEnv)
    \/ FetchResponse(UnknownEnv)
    \/ Return

SpecUnknown == InitUnknown /\ [][NextUnknown]_vars

\* the cadence specification: run_query against a backend that answers at
\* once, with no budget given and with one that is not a multiple of the
\* poll interval
CadenceTimeouts == {RawUndefined, RawNumber(2500)}

CadenceEnv ==
    [lats |-> {0}, stats |-> {None}, tables |-> {ExampleTable},
     polled |-> PolledStates]

NextCadence ==
    \/ RunQueryCall(CadenceTimeouts, BudgetMaxRows)
    \/ StartResponse(CadenceEnv)
    \/ LoopHead
    \/ PollResponse(CadenceEnv)
    \/ SleepDone
    \/ VerifyResponse(CadenceEnv)
    \/ FetchResponse(CadenceEnv)
    \/ Return
    \/ BackendStep

SpecCadence == Init /\ [][NextCadence]_vars

\* a step of the invocation in flight: the answer to its pending request
\* arrives, or its timer fires, and the code runs on
ProgramStep ==
    \/ StartResponse(BudgetEnv)
    \/ LoopHead
    \/ PollResponse(BudgetEnv)
    \/ SleepDone
    \/ VerifyResponse(BudgetEnv)
    \/ FetchResponse(BudgetEnv)
    \/ StatusResponse(BudgetEnv)

\* the long-budget specification when every backend call returns and every
\* timer fires
SpecBudgetFair == SpecBudget /\ WF_vars(ProgramStep)

-----------------------------------------------------------------------------
(* Claims *)

BareHandle == Returned([queryExecutionId |-> qid[1]])

\* the poll loop of a submitted run_query ended at its head: no answer was
\* terminal, none failed, and getQueryResults was not entered
LoopRanOut ==
    /\ pc = "done"
    /\ tool = "run_query"
    /\ qid # None
    /\ response = None
    /\ sent.status = 0

\* C1: when the poll loop of run_query sees only non-terminal states until its
\* budget is spent, run_query returns exactly the bare handle and raises no
\* error; no error with code TIMEOUT ever leaves run_query.
C1_TimeoutReturnsBareHandle ==
    (pc = "done" /\ tool = "run_query") =>
        /\ outcome.kind = "throw" => outcome.error.code # Some("TIMEOUT")
        /\ LoopRanOut => outcome = BareHandle
        /\ (waited # None /\ waited[1].kind = "throw"
              /\ waited[1].error.code = Some("TIMEOUT")) => outcome = BareHandle

C1_Witness ==
    /\ LoopRanOut
    /\ outcome = BareHandle
    /\ attempts >= 2
    /\ state = Some("RUNNING")
    /\ now - startTime >= TimeoutMs

\* the message the claims give a failure: the reason if there is one
ReasonOrGeneric(reason) ==
    IF reason # None /\ reason[1] # "" THEN reason[1] ELSE "Query failed"

\* C2: a FAILED or CANCELLED state seen by the poll loop makes run_query fail
\* with QUERY_FAILED, and a FAILED status makes getQueryResults (get_result)
\* fail with QUERY_FAILED; the message is the backend's reason when it gives
\* one and "Query failed" otherwise.
C2_FailureReportsReason ==
    pc = "done" =>
        /\ (tool = "run_query" /\ state # None /\ state[1] \in {"FAILED", "CANCELLED"}) =>
              /\ outcome.kind = "throw"
              /\ outcome.error.code = Some("QUERY_FAILED")
              /\ outcome.error.message =
                    ReasonOrGeneric(ReasonOf(response[1].output.QueryExecution[1]))
        /\ (status # None /\ status[1].state = "FAILED") =>
              /\ outcome.kind = "throw"
              /\ outcome.error.code = Some("QUERY_FAILED")
              /\ outcome.error.message =
                    ReasonOrGeneric(ReasonOf(response[1].output.QueryExecution[1]))

C2_Witness ==
    /\ pc = "done"
    /\ tool = "run_query"
    /\ state = Some("CANCELLED")
    /\ attempts >= 1
    /\ outcome.kind = "throw"
    /\ outcome.error.message = "syntax error"

\* C3: get_result on a handle whose status is RUNNING or QUEUED fails with
\* QUERY_STILL_RUNNING carrying the handle, and sends no GetQueryResults
\* request.
C3_StillRunningNoFetch ==
    (tool = "get_result" /\ status # None /\ status[1].state \in {"RUNNING", "QUEUED"}) =>
        /\ pc = "done"
        /\ sent.fetch = 0
        /\ outcome.kind = "throw"
        /\ outcome.error.code = Some("QUERY_STILL_RUNNING")
        /\ outcome.error.queryExecutionId = qid

C3_Witness ==
    /\ pc = "done"
    /\ tool = "get_result"
    /\ status # None
    /\ status[1].state = "QUEUED"
    /\ outcome.kind = "throw"
    /\ outcome.error.code = Some("QUERY_STILL_RUNNING")

MaxRowsOutOfRange ==
    /\ input.maxRows # None
    /\ (input.maxRows[1] < MinMaxRows \/ input.maxRows[1] > MaxMaxRows)

\* C4: a run_query or get_result invocation whose maxRows is outside
\* [1, 10000] is rejected and sends no request to the backend.
C4_BoundsCheckedBeforeBackend ==
    (tool \in {"run_query", "get_result"} /\ MaxRowsOutOfRange) =>
        /\ sent = NoneSent
        /\ pc = "done" => outcome.kind = "throw"

\* C5: with a backend that keeps to its contract and a valid maxRows, a
\* run_query whose poll loop saw SUCCEEDED returns a QueryResult with at most
\* maxRows rows (1000 when maxRows is not given) and as many columns as the
\* backend's column metadata.
C5_SuccessReturnsBoundedResult ==
    (pc = "done" /\ tool = "run_query" /\ reliable /\ state = Some("SUCCEEDED")
       /\ ~MaxRowsOutOfRange) =>
        /\ outcome.kind = "return"
        /\ DOMAIN outcome.value =
              {"columns", "rows", "queryExecutionId", "bytesScanned", "executionTime"}
        /\ Len(outcome.value.rows) <=
              (IF input.maxRows = None THEN DefaultMaxRows ELSE input.maxRows[1])
        /\ Len(outcome.value.columns) =
              Len(results[1].output.ResultSet[1].ColumnInfo[1])

C5_Witness ==
    /\ pc = "done"
    /\ tool = "run_query"
    /\ reliable
    /\ state = Some("SUCCEEDED")
    /\ attempts >= 1
    /\ input.maxRows = Some(2)
    /\ outcome.kind = "return"
    /\ Len(outcome.value.rows) = 1
    /\ Len(outcome.value.columns) = 1

\* the rows of the page a finished getQueryResults decoded
RawRows ==
    LET rs == results[1].output.ResultSet[1] IN
    IF rs.Rows = None THEN << >> ELSE rs.Rows[1]

\* the cells of raw row number r
RawCells(r) == IF RawRows[r].Data = None THEN << >> ELSE RawRows[r].Data[1]

Decoded == pc = "done" /\ outcome.kind = "return" /\ tool = "get_result"

\* C6: the decoder drops exactly the first row of the page and gives one record
\* per remaining row, in order; every value of a record is the cell of its row
\* under that column, unchanged, so a null cell stays null and is never the
\* empty string.  The documented example decodes to its two records.
C6_HeaderDroppedNullKept ==
    Decoded =>
        LET recs == outcome.value.rows
            cols == outcome.value.columns IN
        /\ Len(recs) = IF RawRows = << >> THEN 0 ELSE Len(RawRows) - 1
        /\ \A i \in 1..Len(recs) :
              /\ \A k \in DOMAIN recs[i] :
                    \E j \in 1..Len(RawCells(i + 1)) :
                        /\ j <= Len(cols)
                        /\ cols[j] = k
                        /\ recs[i][k] = RawCells(i + 1)[j].VarCharValue
              /\ \A j \in 1..Len(RawCells(i + 1)) :
                    (/\ j <= Len(cols)
                     /\ cols[j] # ""
                     /\ \A j2 \in (j + 1)..Len(RawCells(i + 1)) :
                           j2 <= Len(cols) => cols[j2] # cols[j])
                    => /\ cols[j] \in DOMAIN recs[i]
                       /\ recs[i][cols[j]] = RawCells(i + 1)[j].VarCharValue
        /\ results[1].output.ResultSet[1] = ExampleTable =>
              recs = <<[col_a |-> Some("1"), col_b |-> Some("x")],
                       [col_a |-> Some("2"), col_b |-> None]>>

C6_Witness ==
    /\ Decoded
    /\ results[1].output.ResultSet[1] = ExampleTable
    /\ Len(outcome.value.rows) = 2
    /\ outcome.value.rows[2]["col_b"] = None
    /\ outcome.value.rows[1]["col_a"] = Some("1")

\* C7: get_status fails with QUERY_NOT_FOUND when the backend rejects the
\* handle as unrecognized; for a recognized handle it returns the backend's
\* state, UNKNOWN when there is none, and the two statistics, 0 when absent.
C7_StatusNotFoundAndDefaults ==
    (pc = "done" /\ tool = "get_status" /\ response # None) =>
        LET a == response[1] IN
        /\ (a.kind = "throw" /\ a.error.type = "InvalidRequestException") =>
              /\ outcome.kind = "throw"
              /\ outcome.error.code = Some("QUERY_NOT_FOUND")
        /\ (reliable /\ ~Known(qid[1])) =>
              /\ outcome.kind = "throw"
              /\ outcome.error.code = Some("QUERY_NOT_FOUND")
        /\ (a.kind = "ok" /\ a.output.QueryExecution # None) =>
              LET qe == a.output.QueryExecution[1] IN
              /\ outcome.kind = "return"
              /\ outcome.value.state =
                    (IF StateOf(qe) = None THEN "UNKNOWN" ELSE StateOf(qe)[1])
              /\ outcome.value.statistics.dataScannedInBytes =
                    (IF DataScannedOf(qe) = None THEN 0 ELSE DataScannedOf(qe)[1])
              /\ outcome.value.statistics.engineExecutionTimeInMillis =
                    (IF EngineTimeOf(qe) = None THEN 0 ELSE EngineTimeOf(qe)[1])

C7_Witness ==
    /\ pc = "done"
    /\ tool = "get_status"
    /\ reliable
    /\ exec # None
    /\ qid # None
    /\ ~Known(qid[1])
    /\ response # None
    /\ outcome.kind = "throw"
    /\ outcome.error.code = Some("QUERY_NOT_FOUND")

\* the parameter check of the handler rejected the call
ParamsRejected ==
    pc = "done" /\ outcome.kind = "throw" /\ outcome.error.type = "McpError"

\* C8: a run_query invocation sends exactly one StartQueryExecution request,
\* whatever follows; a failed submission is not sent again and ends the
\* invocation with an error and no GetQueryExecution or GetQueryResults request.
C8_OneSubmission ==
    /\ sent.submit <= 1
    /\ (tool = "run_query" /\ ~ParamsRejected) => sent.submit = 1
    /\ tool # "run_query" => sent.submit = 0
    /\ (tool = "run_query" /\ pc = "done" /\ ~ParamsRejected /\ qid = None) =>
          /\ outcome.kind = "throw"
          /\ sent = [NoneSent EXCEPT !.submit = 1]

C8_Witness ==
    /\ tool = "run_query"
    /\ pc = "done"
    /\ qid = None
    /\ outcome.kind = "throw"
    /\ outcome.error.code = Some("ECONNRESET")
    /\ sent = [NoneSent EXCEPT !.submit = 1]

\* C9: the poll loop sends at most 100 GetQueryExecution requests and sends
\* none once timeoutMs has passed since it started; when either limit is
\* reached with no terminal state seen the loop ends with TIMEOUT.
C9_TwoBounds ==
    /\ sent.poll <= MaxAttempts
    /\ pc = "poll_await" =>
          /\ attempts < MaxAttempts
          /\ now - startTime < TimeoutMs
          /\ sent.poll = attempts + 1
    /\ LoopRanOut =>
          /\ attempts = MaxAttempts \/ now - startTime >= TimeoutMs
          /\ waited = Some(Thrown(Timeout))
    /\ pc = "loop" => sent.poll = attempts
    /\ pc = "sleep" => sent.poll = attempts + 1

\* the attempt cap, not the budget, ended the loop
C9_Witness ==
    /\ LoopRanOut
    /\ attempts = MaxAttempts
    /\ sent.poll = MaxAttempts
    /\ now - startTime < TimeoutMs
    /\ outcome = BareHandle

InFlight == pc \notin {"idle", "done"}

\* the steps an invocation has left at most, counted in units that every
\* program step uses up
Remaining ==
    CASE pc = "start_await" -> 3 * MaxAttempts + 6
      [] pc = "loop" -> 3 * (MaxAttempts - attempts) + 5
      [] pc = "poll_await" -> 3 * (MaxAttempts - attempts) + 4
      [] pc = "sleep" -> 3 * (MaxAttempts - attempts) + 3
      [] pc = "verify_await" -> 2
      [] pc \in {"fetch_await", "status_await"} -> 1
      [] OTHER -> 0

\* C10: every invocation in flight completes, whatever states the backend
\* reports and whether or not a timeoutMs was given, provided each backend
\* call returns: it always has a next step, each step uses up some of a
\* bounded number of remaining steps, and so it reaches its end.
C10_RunQueryCompletes ==
    /\ [](Remaining >= 0)
    /\ [](InFlight => ENABLED ProgramStep)
    /\ [][InFlight => (Remaining' < Remaining \/ UNCHANGED <<pc, attempts>>)]_vars
    /\ (InFlight ~> pc = "done")

\* a run_query without timeoutMs whose backend reported no state at all on
\* every poll has completed
C10_Witness ==
    /\ LoopRanOut
    /\ input.timeoutMs = None
    /\ ~reliable
    /\ state = None
    /\ attempts >= 50

\* C11: the only step of an invocation that creates or alters the backend's
\* execution is the accepted submission; every other change of it is the
\* backend's own move along the lifecycle, and the step that ends an invocation
\* (a local timeout included) leaves the execution as the backend had it.
C11_NoCancellation ==
    /\ [][exec' # exec =>
            \/ /\ pc = "start_await"
               /\ pc' = "loop"
               /\ sent.submit = 1
               /\ exec' = Some([id |-> qid'[1], state |-> "QUEUED"])
            \/ /\ UNCHANGED <<pc, sent, outcome, qid>>
               /\ exec # None
               /\ exec' # None
               /\ exec'[1].id = exec[1].id
               /\ <<exec[1].state, exec'[1].state>> \in Lifecycle]_vars
    /\ [][(pc # "done" /\ pc' = "done") => exec' = exec]_vars

\* run_query gave up locally while the backend still runs the execution
C11_Witness ==
    /\ LoopRanOut
    /\ outcome = BareHandle
    /\ reliable
    /\ exec # None
    /\ exec[1].id = qid[1]
    /\ exec[1].state = "RUNNING"

\* the invocation works on the handle the caller holds from a timed-out
\* run_query, and the backend still tracks that execution
OnHeldHandle ==
    /\ held # None
    /\ qid = held
    /\ reliable
    /\ Known(held[1])

\* C12: the handle a timed-out run_query returned is the one the backend
\* tracks; with it, once the execution has succeeded, get_result passes its
\* status check, fetches and returns the QueryResult of that execution, and
\* get_status returns the backend's current state; neither submits anything.
C12_HeldHandleUsable ==
    /\ [][(pc = "done" /\ pc' = "idle" /\ IsBareHandle(outcome)) =>
            /\ held' = qid
            /\ Known(held'[1])]_vars
    /\ [][(tool = "get_result" /\ OnHeldHandle /\ exec[1].state = "SUCCEEDED"
             /\ pc = "verify_await" /\ pc' # pc) =>
            /\ pc' = "fetch_await"
            /\ sent'.submit = 0]_vars
    /\ [][(tool = "get_result" /\ OnHeldHandle /\ pc = "fetch_await" /\ pc' # pc) =>
            /\ pc' = "done"
            /\ outcome'.kind = "return"
            /\ outcome'.value.queryExecutionId = held[1]
            /\ outcome'.value.columns = Columns(results'[1].output.ResultSet[1])
            /\ sent' = [NoneSent EXCEPT !.status = 1, !.fetch = 1]]_vars
    /\ [][(tool = "get_status" /\ OnHeldHandle /\ pc = "status_await" /\ pc' # pc) =>
            /\ pc' = "done"
            /\ outcome'.kind = "return"
            /\ outcome'.value.state = exec[1].state
            /\ sent' = [NoneSent EXCEPT !.status = 1]]_vars

\* get_result returned the rows of the execution a run_query had given up on
C12_Witness ==
    /\ tool = "get_result"
    /\ pc = "done"
    /\ OnHeldHandle
    /\ held = Some("h2")
    /\ exec[1].state = "SUCCEEDED"
    /\ outcome.kind = "return"
    /\ outcome.value.queryExecutionId = "h2"
    /\ Len(outcome.value.rows) = 2

\* the error codes whose errors carry the handle
HandleCodes == {"QUERY_FAILED", "QUERY_STILL_RUNNING", "UNEXPECTED_STATE"}

\* C13: within a run_query invocation the handle the service works with is
\* the one the backend returned from the submission and never changes; the
\* QueryResult or the bare-handle result carries it, every QUERY_FAILED,
\* QUERY_STILL_RUNNING or UNEXPECTED_STATE error carries it, and no error
\* carries another handle.
C13_HandleIntegrity ==
    /\ [](tool = "run_query" /\ qid # None =>
            /\ exec # None
            /\ qid = Some(exec[1].id)
            /\ outcome.kind = "return" => outcome.value.queryExecutionId = exec[1].id
            /\ outcome.kind = "throw" =>
                  /\ outcome.error.queryExecutionId \in {None, qid}
                  /\ (outcome.error.code # None /\ outcome.error.code[1] \in HandleCodes)
                        => outcome.error.queryExecutionId = qid)
    /\ [](tool = "run_query" /\ qid = None => sent.poll + sent.status + sent.fetch = 0)
    /\ [][(tool = "run_query" /\ qid # None /\ pc' # "idle") => qid' = qid]_vars

\* run_query failed on a poll with an error that carries the submitted handle
C13_Witness ==
    /\ pc = "done"
    /\ tool = "run_query"
    /\ qid = Some("h2")
    /\ exec[1].id = "h2"
    /\ attempts >= 1
    /\ sent.status = 0
    /\ outcome.kind = "throw"
    /\ outcome.error.code = Some("QUERY_FAILED")
    /\ outcome.error.queryExecutionId = Some("h2")

\* the last GetQueryExecution request of the invocation was rejected by the
\* backend with an InvalidRequestException
StatusCheckRejected ==
    /\ response # None
    /\ response[1].kind = "throw"
    /\ response[1].error.type = "InvalidRequestException"

\* C14: an invocation ends with INVALID_REQUEST only when it is a run_query
\* whose submission the backend rejected, and an invocation whose status check
\* the backend rejected (get_status, get_result, or a poll of run_query) ends
\* with QUERY_NOT_FOUND.
C14_CodesTiedToStage ==
    (pc = "done" /\ outcome.kind = "throw") =>
        /\ outcome.error.code = Some("INVALID_REQUEST") =>
              /\ tool = "run_query"
              /\ qid = None
              /\ sent = [NoneSent EXCEPT !.submit = 1]
        /\ StatusCheckRejected => outcome.error.code = Some("QUERY_NOT_FOUND")

\* the state the backend gave in the last GetQueryExecution answer, UNKNOWN
\* when it gave none
ObservedState ==
    LET qe == response[1].output.QueryExecution[1] IN
    IF StateOf(qe) = None THEN "UNKNOWN" ELSE StateOf(qe)[1]

\* C15: a get_result whose status check saw a state other than SUCCEEDED,
\* RUNNING, QUEUED or FAILED (CANCELLED, or none at all) fails with
\* UNEXPECTED_STATE, with the message "Unexpected query state: " and the state
\* seen, carrying the handle, and sends no GetQueryResults request.
C15_UnexpectedState ==
    (tool = "get_result" /\ response # None /\ response[1].kind = "ok"
       /\ response[1].output.QueryExecution # None
       /\ ObservedState \notin {"SUCCEEDED", "RUNNING", "QUEUED", "FAILED"}) =>
        /\ pc = "done"
        /\ sent.fetch = 0
        /\ outcome.kind = "throw"
        /\ outcome.error.code = Some("UNEXPECTED_STATE")
        /\ outcome.error.message \in {"Unexpected query state: CANCELLED",
                                      "Unexpected query state: UNKNOWN"}
        /\ outcome.error.message = "Unexpected query state: " \o ObservedState
        /\ outcome.error.queryExecutionId = qid

C15_Witness ==
    /\ tool = "get_result"
    /\ pc = "done"
    /\ reliable
    /\ exec # None
    /\ exec[1].state = "CANCELLED"
    /\ qid = Some(exec[1].id)
    /\ outcome.kind = "throw"
    /\ outcome.error.message = "Unexpected query state: CANCELLED"

\* the statistics of the last GetQueryExecution answer, 0 when absent
FreshBytesScanned ==
    LET v == DataScannedOf(response[1].output.QueryExecution[1]) IN
    IF v = None THEN 0 ELSE v[1]

FreshExecutionTime ==
    LET v == EngineTimeOf(response[1].output.QueryExecution[1]) IN
    IF v = None THEN 0 ELSE v[1]

\* C16: a GetQueryResults request is sent only by the step that receives the
\* answer to a status request of getQueryResults saying SUCCEEDED, once per
\* invocation; a run_query that fetches has sent that one status request on
\* top of the attempts + 1 requests of its poll loop; and the bytesScanned and
\* executionTime of a QueryResult are the statistics of that status answer.
C16_FreshStatusBeforeFetch ==
    /\ [][sent'.fetch > sent.fetch =>
            /\ pc = "verify_await"
            /\ pc' = "fetch_await"
            /\ sent.fetch = 0
            /\ sent'.status = 1
            /\ response'[1].kind = "ok"
            /\ StateOf(response'[1].output.QueryExecution[1]) = Some("SUCCEEDED")]_vars
    /\ [](sent.fetch = 1 =>
            /\ sent.status = 1
            /\ ObservedState = "SUCCEEDED"
            /\ tool \in {"run_query", "get_result"}
            /\ tool = "run_query" =>
                  /\ state = Some("SUCCEEDED")
                  /\ sent.poll = attempts + 1)
    /\ [](tool # "run_query" => sent.poll = 0)
    /\ []((pc = "done" /\ sent.fetch = 1 /\ outcome.kind = "return") =>
            /\ outcome.value.bytesScanned = FreshBytesScanned
            /\ outcome.value.executionTime = FreshExecutionTime)

\* a run_query that polled three times returned with the statistics of its
\* status check
C16_Witness ==
    /\ pc = "done"
    /\ tool = "run_query"
    /\ outcome.kind = "return"
    /\ sent = [submit |-> 1, poll |-> 3, status |-> 1, fetch |-> 1]
    /\ outcome.value.bytesScanned = 5
    /\ outcome.value.executionTime = 3

\* the column descriptors of the page a finished getQueryResults decoded
RawColumns ==
    LET rs == results[1].output.ResultSet[1] IN
    IF rs.ColumnInfo = None THEN << >> ELSE rs.ColumnInfo[1]

\* C18: the columns of a QueryResult are the names of the backend's column
\* descriptors in order, the empty string for a descriptor without a name; and
\* every record has, for each column that its row has a cell for, that cell
\* under the column's name.
C18_ColumnsAligned ==
    Decoded =>
        LET recs == outcome.value.rows
            cols == outcome.value.columns IN
        /\ Len(cols) = Len(RawColumns)
        /\ \A j \in 1..Len(cols) :
              cols[j] = IF RawColumns[j].Name = None THEN "" ELSE RawColumns[j].Name[1]
        /\ \A i \in 1..Len(recs) :
              \A j \in 1..Len(cols) :
                  j <= Len(RawCells(i + 1)) =>
                      /\ cols[j] \in DOMAIN recs[i]
                      /\ recs[i][cols[j]] = RawCells(i + 1)[j].VarCharValue

\* the defaults the README documents for the optional server configuration
QUERY_TIMEOUT_MS == 300000

MAX_RETRIES == 100

RETRY_DELAY_MS == 500

\* C19: with the server configuration left at its documented defaults, the
\* delay between two status checks of the poll loop is RETRY_DELAY_MS, the loop
\* sends at most MAX_RETRIES status requests, and a run_query without timeoutMs
\* gives up only after MAX_RETRIES attempts or QUERY_TIMEOUT_MS.
C19_DocumentedSettings ==
    /\ [][(pc = "sleep" /\ pc' = "loop") => now' = now + RETRY_DELAY_MS]_vars
    /\ [](sent.poll <= MAX_RETRIES)
    /\ []((LoopRanOut /\ input.timeoutMs = None) =>
            (attempts = MAX_RETRIES \/ now - startTime >= QUERY_TIMEOUT_MS))

\* the poll loop of run_query ended on an answer the backend gave (not on an
\* error of the request, and not at the loop head)
EndedByPollAnswer ==
    /\ pc = "done"
    /\ tool = "run_query"
    /\ sent.status = 0
    /\ response # None
    /\ response[1].kind = "ok"

\* C20: an answer of a poll that carries no state never ends the loop: the
\* loop ends on an answer only when the answer says FAILED or CANCELLED (with
\* an error) or SUCCEEDED (moving on to getQueryResults); while it sleeps the
\* last state seen was none, QUEUED or RUNNING and nothing was raised; the
\* sleep is the same whatever that state; and a run_query whose later poll
\* saw SUCCEEDED and whose fetch was answered returns the full QueryResult.
C20_UnknownKeepsPolling ==
    /\ [](EndedByPollAnswer =>
            /\ response[1].output.QueryExecution # None
            /\ StateOf(response[1].output.QueryExecution[1])
                  \in {Some("FAILED"), Some("CANCELLED")})
    /\ [](pc = "sleep" =>
            /\ state \in {None, Some("QUEUED"), Some("RUNNING")}
            /\ outcome = NoOutcome
            /\ waited = None)
    /\ [][(pc = "sleep" /\ pc' # pc) =>
            /\ pc' = "loop"
            /\ attempts' = attempts + 1
            /\ now' = now + PollIntervalMs]_vars
    /\ []((pc = "done" /\ tool = "run_query" /\ results # None
              /\ results[1].kind = "ok" /\ results[1].output.ResultSet # None) =>
            /\ state = Some("SUCCEEDED")
            /\ outcome.kind = "return"
            /\ outcome.value.queryExecutionId = qid[1]
            /\ outcome.value.rows = DecodeRows(results[1].output.ResultSet[1]))

\* two polls without a state, then SUCCEEDED, and run_query returned the rows
C20_Witness ==
    /\ pc = "done"
    /\ tool = "run_query"
    /\ attempts = 2
    /\ sent.poll = 3
    /\ state = Some("SUCCEEDED")
    /\ outcome.kind = "return"
    /\ Len(outcome.value.rows) = 2

EndedAfterSucceededPoll ==
    /\ pc = "done"
    /\ tool = "run_query"
    /\ state = Some("SUCCEEDED")

ReverificationCodes == {"QUERY_STILL_RUNNING", "QUERY_FAILED", "UNEXPECTED_STATE"}

\* C22: with a backend that keeps to its contract (SUCCEEDED is final), a
\* run_query whose poll saw SUCCEEDED sends its fetch and ends with a
\* QueryResult or an error of the fetch, never with QUERY_STILL_RUNNING,
\* QUERY_FAILED or UNEXPECTED_STATE; with any backend, it ends with one of
\* these codes exactly when the re-verification's answer carries a state other
\* than SUCCEEDED.
C22_ReverificationAfterSucceeded ==
    EndedAfterSucceededPoll =>
        /\ reliable =>
              /\ sent.status = 1
              /\ sent.fetch = 1
              /\ results # None
              /\ outcome.kind = "throw" =>
                    /\ results[1].kind = "throw" \/ results[1].output.ResultSet = None
                    /\ outcome.error.code = None
                          \/ outcome.error.code[1] \notin ReverificationCodes
              /\ outcome.kind \in {"return", "throw"}
        /\ (response # None /\ response[1].kind = "ok"
               /\ response[1].output.QueryExecution # None) =>
              /\ ObservedState \in {"RUNNING", "QUEUED"} <=>
                    (outcome.kind = "throw"
                       /\ outcome.error.code = Some("QUERY_STILL_RUNNING"))
              /\ ObservedState = "FAILED" <=>
                    (outcome.kind = "throw" /\ outcome.error.code = Some("QUERY_FAILED"))
              /\ ObservedState \in {"CANCELLED", "UNKNOWN"} <=>
                    (outcome.kind = "throw"
                       /\ outcome.error.code = Some("UNEXPECTED_STATE"))

\* the backend kept to its contract and run_query returned the rows
C22_Witness ==
    /\ EndedAfterSucceededPoll
    /\ reliable
    /\ exec[1].state = "SUCCEEDED"
    /\ attempts >= 1
    /\ sent.status = 1
    /\ outcome.kind = "return"
    /\ Len(outcome.value.rows) >= 1

\* a backend that goes back on SUCCEEDED: run_query fails with
\* QUERY_STILL_RUNNING after its poll saw SUCCEEDED
C22_SurfacesWithoutAssumption ==
    /\ EndedAfterSucceededPoll
    /\ ~reliable
    /\ outcome.kind = "throw"
    /\ outcome.error.code = Some("QUERY_STILL_RUNNING")

\* C23: an invocation that threw a value with a code (the handler's own
\* parameter and unknown-tool errors, raised before any backend request,
\* included) is answered with a tool result flagged isError whose only text is
\* "Error: " and the value's message, without its code or handle; one that
\* threw a value without a code is rejected with that value; one that returned
\* is answered with an unflagged result.
C23_ErrorsAsToolResults ==
    pc = "done" =>
        LET reply == ToolReply(outcome) IN
        /\ (outcome.kind = "throw" /\ outcome.error.code # None) =>
              /\ reply.kind = "result"
              /\ reply.isError
              /\ reply.text = <<"Error: ", outcome.error.message>>
              /\ DOMAIN reply = {"kind", "text", "isError"}
        /\ ParamsRejected =>
              /\ sent = NoneSent
              /\ reply.kind = "result"
              /\ reply.isError
        /\ reply.kind = "rejected" <=>
              (outcome.kind = "throw" /\ outcome.error.code = None)
        /\ outcome.kind = "return" => (reply.kind = "result" /\ ~reply.isError)
        /\ tool = "other" => ParamsRejected

\* a run_query without its required parameters was answered with an error
\* result, and nothing was sent to the backend
C23_Witness ==
    /\ pc = "done"
    /\ tool = "run_query"
    /\ ParamsRejected
    /\ sent = NoneSent
    /\ ToolReply(outcome) =
          ToolResult(<<"Error: ",
                       "Missing or invalid required parameters: database (string) and query (string)">>,
                     TRUE)

\* a failure of the transport without a code reached the protocol
C23_Rejected ==
    /\ pc = "done"
    /\ outcome.kind = "throw"
    /\ outcome.error.code = None
    /\ ToolReply(outcome).kind = "rejected"

=============================================================================
